---- MODULE Spec2Model ----
(***************************************************************************)
(* Frame protocol engine of the iSED analyzer handler (src/clean.py,       *)
(* class iSEDHandler): ENQ/ACK handshake, checksum validation, record      *)
(* decoding and session aggregation.  Byte strings are sequences of byte   *)
(* values 0..255; Python positions are 0-based and kept 0-based here.      *)
(***************************************************************************)
EXTENDS Integers, Sequences, FiniteSets, TLC

VARIABLES
    state,            \* "IDLE": blocked in listen_for_data's read(1);
                      \* "RECEIVING_FRAMES": inside _handle_transmission's loop
    current_session,  \* iSEDHandler.current_session
    last_read,        \* bytes returned by the last read(1) or read_until(LF)
    last_write,       \* bytes written to the serial port by the last step
    handed_off,       \* session files written by _finalize_session since the last ENQ
    tx_entities,      \* numbers of patients, orders, results appended since the last ENQ
    ck_fail_frame,    \* frame number of the current run of checksum failures (-1 if none)
    ck_fail_run,      \* length of that run, saturating at max_retries + 1
    ck_frame,         \* checksum specification: byte string under test
    ck_pc,            \* checksum specification: "in" before the call, "out" after
                      \* it returned, "raised" after it raised
    ck_valid,         \* checksum specification: value returned
    fn_in,            \* decoder, interpreter and summary specifications: the argument
    fn_pc,            \* "idle"; the name of the call about to be made; "out" after it
    fn_out            \* what the call returned

vars == <<state, current_session, last_read, last_write, handed_off, tx_entities,
          ck_fail_frame, ck_fail_run, ck_frame, ck_pc, ck_valid,
          fn_in, fn_pc, fn_out>>

engineVars == <<state, current_session, last_read, last_write, handed_off,
                tx_entities, ck_fail_frame, ck_fail_run>>

ckVars == <<ck_frame, ck_pc, ck_valid>>

fnVars == <<fn_in, fn_pc, fn_out>>

----------------------------------------------------------------------------
(* ProtocolChars *)
ENQ == 5
ACK == 6
NAK == 21
STX == 2
ETX == 3
EOT == 4
CR == 13
LF == 10

(* characters used by the decoder *)
PIPE == 124
CARET == 94
MINUS == 45
DOT == 46
LESS == 60
GREATER == 62

max_retries == 6

----------------------------------------------------------------------------
(* Python sequence primitives, 0-based *)

Min(a, b) == IF a < b THEN a ELSE b

\* s[a:b] for 0 <= a, 0 <= b
Slice(s, a, b) ==
    LET lo == Min(a, Len(s))
        hi == Min(b, Len(s))
    IN IF hi <= lo THEN <<>> ELSE [i \in 1..(hi - lo) |-> s[lo + i]]

\* s.find(b) for a single byte b: first 0-based position, -1 if absent
Find(s, b) ==
    IF \E i \in 1..Len(s) : s[i] = b
    THEN (CHOOSE i \in 1..Len(s) : s[i] = b /\ \A j \in 1..(i - 1) : s[j] # b) - 1
    ELSE -1

\* s.startswith(b) for a single byte b
StartsWith(s, b) == Len(s) > 0 /\ s[1] = b

\* sum(s[lo..hi]), 1-based and inclusive, added up by halves
RECURSIVE SumRange(_, _, _)
SumRange(s, lo, hi) ==
    IF lo > hi THEN 0
    ELSE IF lo = hi THEN s[lo]
    ELSE SumRange(s, lo, (lo + hi) \div 2) + SumRange(s, (lo + hi) \div 2 + 1, hi)

\* sum(s)
SumBytes(s) == SumRange(s, 1, Len(s))

\* one uppercase hexadecimal digit as an ASCII code
HexDigit(n) == IF n < 10 THEN 48 + n ELSE 55 + n

\* f"{n:02X}" for 0 <= n < 256
Hex02X(n) == <<HexDigit(n \div 16), HexDigit(n % 16)>>

\* str.upper() on an ASCII string
UpperChar(c) == IF c >= 97 /\ c <= 122 THEN c - 32 ELSE c

Upper(s) == [i \in 1..Len(s) |-> UpperChar(s[i])]

\* bytes.decode('ascii') raises UnicodeDecodeError on a byte >= 128
DecodeAsciiRaises(s) == \E i \in 1..Len(s) : s[i] >= 128

\* bytes.decode('ascii', errors='ignore') drops the bytes >= 128
DecodeAsciiIgnore(s) == SelectSeq(s, LAMBDA c : c < 128)

----------------------------------------------------------------------------
(* iSEDHandler._verify_checksum *)

_verify_checksum_case_sensitive(frame_data) ==
    LET stx_pos == Find(frame_data, STX)
        etx_pos == Find(frame_data, ETX)
    IN IF stx_pos = -1 \/ etx_pos = -1 THEN FALSE
       ELSE LET checksum_start == etx_pos + 1
                received_bytes == Slice(frame_data, checksum_start, checksum_start + 2)
                data_for_checksum == Slice(frame_data, stx_pos + 1, etx_pos + 1)
                calculated_sum == SumBytes(data_for_checksum) % 256
                calculated_checksum == Hex02X(calculated_sum)
            IN IF DecodeAsciiRaises(received_bytes) THEN FALSE
               ELSE received_bytes = calculated_checksum

\* variant: only the first checksum character is compared
_verify_checksum_first_char_only(frame_data) ==
    LET stx_pos == Find(frame_data, STX)
        etx_pos == Find(frame_data, ETX)
    IN IF stx_pos = -1 \/ etx_pos = -1 THEN FALSE
       ELSE LET checksum_start == etx_pos + 1
                received_bytes == Slice(frame_data, checksum_start, checksum_start + 1)
                data_for_checksum == Slice(frame_data, stx_pos + 1, etx_pos + 1)
                calculated_sum == SumBytes(data_for_checksum) % 256
                calculated_checksum == Slice(Hex02X(calculated_sum), 0, 1)
            IN IF DecodeAsciiRaises(received_bytes) THEN FALSE
               ELSE Upper(received_bytes) = Upper(calculated_checksum)

_verify_checksum(frame_data) ==
    LET stx_pos == Find(frame_data, STX)
        etx_pos == Find(frame_data, ETX)
    IN IF stx_pos = -1 \/ etx_pos = -1 THEN FALSE
       ELSE LET checksum_start == etx_pos + 1
                received_bytes == Slice(frame_data, checksum_start, checksum_start + 2)
                data_for_checksum == Slice(frame_data, stx_pos + 1, etx_pos + 1)
                calculated_sum == SumBytes(data_for_checksum) % 256
                calculated_checksum == Hex02X(calculated_sum)
            IN IF DecodeAsciiRaises(received_bytes) THEN FALSE
               ELSE Upper(received_bytes) = Upper(calculated_checksum)

\* The exception the try block of _verify_checksum raises, "" if none:
\* find, slicing, sum and the format never raise on bytes; decode('ascii')
\* raises on a byte >= 128 in the checksum position.
_verify_checksum_try(frame_data) ==
    LET stx_pos == Find(frame_data, STX)
        etx_pos == Find(frame_data, ETX)
    IN IF stx_pos = -1 \/ etx_pos = -1 THEN ""
       ELSE IF DecodeAsciiRaises(Slice(frame_data, etx_pos + 1, etx_pos + 3))
            THEN "UnicodeDecodeError"
            ELSE ""

\* `except:` names no exception class: it handles every exception
_verify_checksum_except(exc) == exc # ""

_verify_checksum_raises_no_except(frame_data) ==
    _verify_checksum_try(frame_data) # ""

\* an exception leaves the call when the try block raises one that the
\* handler does not take
_verify_checksum_raises(frame_data) ==
    LET exc == _verify_checksum_try(frame_data)
    IN exc # "" /\ ~_verify_checksum_except(exc)

----------------------------------------------------------------------------
(* Python str primitives used by the record decoder *)

\* str.split(sep) for a single character sep
RECURSIVE Split(_, _)
Split(s, sep) ==
    LET p == Find(s, sep)
    IN IF p = -1 THEN <<s>>
       ELSE <<Slice(s, 0, p)>> \o Split(Slice(s, p + 1, Len(s)), sep)

\* str.rstrip('\r')
RECURSIVE RStripCR(_)
RStripCR(s) ==
    IF s # <<>> /\ s[Len(s)] = CR THEN RStripCR(Slice(s, 0, Len(s) - 1)) ELSE s

\* fields[i] if len(fields) > i else default
FieldOr(fields, i, default) == IF Len(fields) > i THEN fields[i + 1] ELSE default

IsDigit(c) == c >= 48 /\ c <= 57

IsSpace(c) == c \in {9, 10, 11, 12, 13, 32}

RECURSIVE LStripSpace(_)
LStripSpace(s) == IF s # <<>> /\ IsSpace(s[1]) THEN LStripSpace(Tail(s)) ELSE s

RECURSIVE RStripSpace(_)
RStripSpace(s) ==
    IF s # <<>> /\ IsSpace(s[Len(s)]) THEN RStripSpace(Slice(s, 0, Len(s) - 1)) ELSE s

RECURSIVE LStripZeros(_)
LStripZeros(s) == IF Len(s) > 1 /\ s[1] = 48 THEN LStripZeros(Tail(s)) ELSE s

RECURSIVE RStripZeros(_)
RStripZeros(s) ==
    IF Len(s) > 1 /\ s[Len(s)] = 48 THEN RStripZeros(Slice(s, 0, Len(s) - 1)) ELSE s

AllDigits(s) == \A i \in 1..Len(s) : IsDigit(s[i])

\* the spellings of the floats that are not numbers, in lowercase
NanText == <<110, 97, 110>>

InfText == <<105, 110, 102>>

InfinityText == <<105, 110, 102, 105, 110, 105, 116, 121>>

\* float(value): surrounded by optional white space, an optional sign and
\* then either a decimal literal digits [ . digits ], or nan, inf or
\* infinity in any case (exponents and digit separators are outside the
\* modelled inputs).  Gives the integer and fractional digit strings of a
\* decimal literal, the name of a float that is not a number with an empty
\* fraction, or ok = FALSE for ValueError.
ParseDigits(neg, ip, fp) ==
    IF AllDigits(ip) /\ AllDigits(fp) /\ Len(ip) + Len(fp) > 0
    THEN [ok |-> TRUE, neg |-> neg,
          int |-> IF ip = <<>> THEN <<48>> ELSE LStripZeros(ip),
          frac |-> IF fp = <<>> THEN <<48>> ELSE RStripZeros(fp)]
    ELSE [ok |-> FALSE, neg |-> FALSE, int |-> <<>>, frac |-> <<>>]

ParseDecimal(neg, u, d) ==
    IF d = -1 THEN ParseDigits(neg, u, <<>>)
    ELSE ParseDigits(neg, Slice(u, 0, d), Slice(u, d + 1, Len(u)))

ParseUnsigned(neg, u, low) ==
    IF low = NanText
    THEN [ok |-> TRUE, neg |-> FALSE, int |-> NanText, frac |-> <<>>]
    ELSE IF low \in {InfText, InfinityText}
    THEN [ok |-> TRUE, neg |-> neg, int |-> InfText, frac |-> <<>>]
    ELSE ParseDecimal(neg, u, Find(u, DOT))

ParseSigned(neg, u) ==
    ParseUnsigned(neg, u, [i \in 1..Len(u) |-> IF u[i] >= 65 /\ u[i] <= 90 THEN u[i] + 32 ELSE u[i]])

ParseStripped(t) ==
    IF t = <<>> THEN ParseSigned(FALSE, t)
    ELSE IF t[1] = MINUS THEN ParseSigned(TRUE, Tail(t))
    ELSE IF t[1] = 43 THEN ParseSigned(FALSE, Tail(t))
    ELSE ParseSigned(FALSE, t)

ParseFloat(value) == ParseStripped(RStripSpace(LStripSpace(value)))

\* f"{numeric_value}" of the parsed float
FloatText(f) ==
    (IF f.neg THEN <<MINUS>> ELSE <<>>) \o f.int \o
    (IF f.frac = <<>> THEN <<>> ELSE <<DOT>> \o f.frac)

----------------------------------------------------------------------------
(* ESR_ERROR_CODES and iSEDHandler._interpret_result.  A formatted string  *)
(* is kept as its literal part (text) and the interpolated bytes (arg).    *)

ESR_ERROR_CODES ==
    (<<MINUS, 49>> :> "No flow detected") @@
    (<<MINUS, 50>> :> "No spike detected") @@
    (<<MINUS, 51>> :> "Reverse flow detected") @@
    (<<MINUS, 52>> :> "Insufficient data points") @@
    (<<MINUS, 53>> :> "Sample too dark") @@
    (<<MINUS, 55>> :> "Sample too clear") @@
    (<<MINUS, 56>> :> "Withdrawal error") @@
    (<<MINUS, 57>> :> "Flow in error") @@
    (<<MINUS, 49, 48>> :> "Flow out error") @@
    (<<MINUS, 49, 49>> :> "Acquisition error") @@
    (<<MINUS, 49, 50>> :> "Trigger delay error")

\* try: numeric_value = float(value) ... except ValueError: ...
NormalOrInvalid(value, numeric_value) ==
    IF numeric_value.ok
    THEN [text |-> "Normal measurement: ", arg |-> FloatText(numeric_value)]
    ELSE [text |-> "Invalid format: ", arg |-> value]

_interpret_result(value, abnormal_flag) ==
    IF StartsWith(value, MINUS)
    THEN IF value \in DOMAIN ESR_ERROR_CODES
         THEN [text |-> ESR_ERROR_CODES[value], arg |-> <<>>]
         ELSE [text |-> "Unknown error: ", arg |-> value]
    ELSE IF abnormal_flag = <<LESS>>
    THEN [text |-> "Below range (< 1 mm/hr)", arg |-> <<>>]
    ELSE IF abnormal_flag = <<GREATER>>
    THEN [text |-> "Above range (> 130 mm/hr)", arg |-> <<>>]
    ELSE NormalOrInvalid(value, ParseFloat(value))

----------------------------------------------------------------------------
(* Session and record decoder.  Timestamps (session_start, session_id, the *)
(* result's timestamp) are wall-clock values that no decision reads; the   *)
(* session records only whether the key session_end has been set.  The     *)
(* local frame_count of _handle_transmission is written to the log and     *)
(* read by nothing else; it is not part of the state.                      *)

Unknown == <<85, 110, 107, 110, 111, 119, 110>>

\* iSEDHandler._init_session; header {} is the empty sequence, a header
\* dict is a one-element sequence
_init_session ==
    [header |-> <<>>, patients |-> <<>>, orders |-> <<>>, results |-> <<>>,
     session_end |-> FALSE]

\* variant: the first two components of the sender field exchanged
HeaderOf_product_first(fields) ==
    LET sender_parts == IF Len(fields) > 4 THEN Split(fields[5], CARET) ELSE <<>>
    IN [manufacturer |-> FieldOr(sender_parts, 1, Unknown),
        product |-> FieldOr(sender_parts, 0, Unknown),
        software_version |-> FieldOr(sender_parts, 2, Unknown),
        instrument_id |-> FieldOr(sender_parts, 3, Unknown),
        message_datetime |-> FieldOr(fields, 13, <<>>),
        processing_id |-> FieldOr(fields, 11, <<>>),
        version_number |-> FieldOr(fields, 12, <<>>)]

\* the header dict built by _process_header
HeaderOf(fields) ==
    LET sender_parts == IF Len(fields) > 4 THEN Split(fields[5], CARET) ELSE <<>>
    IN [manufacturer |-> FieldOr(sender_parts, 0, Unknown),
        product |-> FieldOr(sender_parts, 1, Unknown),
        software_version |-> FieldOr(sender_parts, 2, Unknown),
        instrument_id |-> FieldOr(sender_parts, 3, Unknown),
        message_datetime |-> FieldOr(fields, 13, <<>>),
        processing_id |-> FieldOr(fields, 11, <<>>),
        version_number |-> FieldOr(fields, 12, <<>>)]

_process_header(session, fields) ==
    [session EXCEPT !.header = <<HeaderOf(fields)>>]

\* variant: the patient name is read one field early
PatientOf_name_one_early(fields) ==
    [sequence |-> FieldOr(fields, 1, <<>>),
     patient_id |-> FieldOr(fields, 3, <<>>),
     patient_name |-> FieldOr(fields, 4, <<>>),
     birthdate |-> FieldOr(fields, 7, <<>>),
     sex |-> FieldOr(fields, 8, <<>>),
     attending_physician |-> FieldOr(fields, 13, <<>>)]

\* the patient dict built by _process_patient
PatientOf(fields) ==
    [sequence |-> FieldOr(fields, 1, <<>>),
     patient_id |-> FieldOr(fields, 3, <<>>),
     patient_name |-> FieldOr(fields, 5, <<>>),
     birthdate |-> FieldOr(fields, 7, <<>>),
     sex |-> FieldOr(fields, 8, <<>>),
     attending_physician |-> FieldOr(fields, 13, <<>>)]

\* variant: the new patient is put in front of the list
_process_patient_prepend(session, fields) ==
    [session EXCEPT !.patients = <<PatientOf(fields)>> \o @]

_process_patient(session, fields) ==
    [session EXCEPT !.patients = Append(@, PatientOf(fields))]

\* variant: the rotor location is read before the sample id
OrderOf_rotor_first(fields) ==
    LET sample_parts == IF Len(fields) > 2 THEN Split(fields[3], CARET) ELSE <<>>
    IN [sequence |-> FieldOr(fields, 1, <<>>),
        sample_id |-> FieldOr(sample_parts, 1, <<>>),
        rotor_location |-> FieldOr(sample_parts, 0, <<>>),
        test_id |-> FieldOr(fields, 4, <<>>),
        report_type |-> FieldOr(fields, 25, <<>>)]

\* the order dict built by _process_order
OrderOf(fields) ==
    LET sample_parts == IF Len(fields) > 2 THEN Split(fields[3], CARET) ELSE <<>>
    IN [sequence |-> FieldOr(fields, 1, <<>>),
        sample_id |-> FieldOr(sample_parts, 0, <<>>),
        rotor_location |-> FieldOr(sample_parts, 1, <<>>),
        test_id |-> FieldOr(fields, 4, <<>>),
        report_type |-> FieldOr(fields, 25, <<>>)]

_process_order(session, fields) ==
    [session EXCEPT !.orders = Append(@, OrderOf(fields))]

\* _process_result reads fields[3] and fields[6] unguarded: IndexError
ResultRaises(fields) == Len(fields) <= 6

\* the result dict built by _process_result when it does not raise
ResultOf(fields) ==
    [sequence |-> FieldOr(fields, 1, <<>>),
     test_id |-> FieldOr(fields, 2, <<>>),
     value |-> FieldOr(fields, 3, <<>>),
     units |-> FieldOr(fields, 4, <<>>),
     abnormal_flag |-> FieldOr(fields, 6, <<>>),
     status |-> FieldOr(fields, 8, <<>>),
     test_start |-> FieldOr(fields, 11, <<>>),
     test_complete |-> FieldOr(fields, 12, <<>>),
     instrument_id |-> FieldOr(fields, 13, <<>>),
     interpretation |-> _interpret_result(fields[4], fields[7])]

_process_result(session, fields) ==
    [session EXCEPT !.results = Append(@, ResultOf(fields))]

\* _process_terminator only reads the termination code and logs it
_process_terminator(session, fields) == session

\* variant: a record type without a processor raises
_process_record_unknown_raises(session, record) ==
    LET record_type == record[1]
        fields == Split(record, PIPE)
    IN IF record = <<>> THEN [session |-> session, raised |-> FALSE]
       ELSE IF record_type = 72
       THEN [session |-> _process_header(session, fields), raised |-> FALSE]
       ELSE IF record_type = 80
       THEN [session |-> _process_patient(session, fields), raised |-> FALSE]
       ELSE IF record_type = 79
       THEN [session |-> _process_order(session, fields), raised |-> FALSE]
       ELSE IF record_type = 82
       THEN IF ResultRaises(fields)
            THEN [session |-> session, raised |-> TRUE]
            ELSE [session |-> _process_result(session, fields), raised |-> FALSE]
       ELSE IF record_type = 76
       THEN [session |-> _process_terminator(session, fields), raised |-> FALSE]
       ELSE [session |-> session, raised |-> TRUE]

\* iSEDHandler._process_record: the session after the record and whether
\* the processor raised
_process_record(session, record) ==
    LET record_type == record[1]
        fields == Split(record, PIPE)
    IN IF record = <<>> THEN [session |-> session, raised |-> FALSE]
       ELSE IF record_type = 72
       THEN [session |-> _process_header(session, fields), raised |-> FALSE]
       ELSE IF record_type = 80
       THEN [session |-> _process_patient(session, fields), raised |-> FALSE]
       ELSE IF record_type = 79
       THEN [session |-> _process_order(session, fields), raised |-> FALSE]
       ELSE IF record_type = 82
       THEN IF ResultRaises(fields)
            THEN [session |-> session, raised |-> TRUE]
            ELSE [session |-> _process_result(session, fields), raised |-> FALSE]
       ELSE IF record_type = 76
       THEN [session |-> _process_terminator(session, fields), raised |-> FALSE]
       ELSE [session |-> session, raised |-> FALSE]

\* the records of a validated frame: data_section split on CR, empty
\* records dropped (_process_frame, lines 207-218)
RecordsOf(frame_data) ==
    LET stx_pos == Find(frame_data, STX)
        etx_pos == Find(frame_data, ETX)
        data_section == RStripCR(DecodeAsciiIgnore(Slice(frame_data, stx_pos + 2, etx_pos)))
    IN SelectSeq(Split(data_section, CR), LAMBDA r : r # <<>>)

\* for record in records: self._process_record(record), stopping at the
\* first record whose processor raises
RECURSIVE ProcessRecords(_, _)
ProcessRecords(session, records) ==
    IF records = <<>> THEN [session |-> session, raised |-> FALSE]
    ELSE LET r == _process_record(session, Head(records))
         IN IF r.raised THEN r ELSE ProcessRecords(r.session, Tail(records))

\* variant: the records are decoded before the checksum is looked at
_process_frame_decode_first(session, frame_data) ==
    LET r == ProcessRecords(session, RecordsOf(frame_data))
    IN [success |-> _verify_checksum(frame_data) /\ ~r.raised, session |-> r.session]

\* iSEDHandler._process_frame: the value returned and the session left
_process_frame(session, frame_data) ==
    IF ~_verify_checksum(frame_data)
    THEN [success |-> FALSE, session |-> session]
    ELSE LET r == ProcessRecords(session, RecordsOf(frame_data))
         IN [success |-> ~r.raised, session |-> r.session]

----------------------------------------------------------------------------
(* iSEDHandler._create_session_summary.  A dict that may be empty ({} for  *)
(* no header, no matching patient, no matching order) is a sequence of at  *)
(* most one record.                                                        *)

\* 'N/A'
NA == <<78, 47, 65>>

\* d.get(key, default)
GetOr(d, key, default) == IF d = <<>> THEN default ELSE d[1][key]

\* next((e for e in entities if e['sequence'] == sequence), {})
RECURSIVE NextWithSequence(_, _)
NextWithSequence(entities, sequence) ==
    IF entities = <<>> THEN <<>>
    ELSE IF Head(entities).sequence = sequence THEN <<Head(entities)>>
    ELSE NextWithSequence(Tail(entities), sequence)

\* the dict appended to summary['results'] for result number i
SummaryRow(i, result, patient, order) ==
    [test_number |-> i,
     patient_name |-> GetOr(patient, "patient_name", NA),
     patient_id |-> GetOr(patient, "patient_id", NA),
     sample_id |-> GetOr(order, "sample_id", NA),
     esr_value |-> result.value,
     units |-> result.units,
     interpretation |-> result.interpretation,
     test_completed |-> result.test_complete,
     instrument_id |-> result.instrument_id]

\* interpretation.startswith('Normal'): of the texts _interpret_result
\* returns, only the normal measurement starts so
StartsWithNormal(interpretation) == interpretation.text = "Normal measurement: "

\* variant: every result is counted as a successful test
SummaryStatistics_all_successful(session) ==
    [total_patients |-> Len(session.patients),
     total_orders |-> Len(session.orders),
     total_results |-> Len(session.results),
     successful_tests |-> Len(session.results),
     error_tests |->
        Len(SelectSeq(session.results,
                      LAMBDA r : ~StartsWithNormal(r.interpretation)))]

\* the counts of the statistics block
SummaryStatistics(session) ==
    [total_patients |-> Len(session.patients),
     total_orders |-> Len(session.orders),
     total_results |-> Len(session.results),
     successful_tests |->
        Len(SelectSeq(session.results,
                      LAMBDA r : StartsWithNormal(r.interpretation))),
     error_tests |->
        Len(SelectSeq(session.results,
                      LAMBDA r : ~StartsWithNormal(r.interpretation)))]

\* the session_info block without its wall-clock values
SummarySessionInfo(session) ==
    [analyzer |-> GetOr(session.header, "manufacturer", NA) \o <<32>>
                      \o GetOr(session.header, "product", NA),
     software_version |-> GetOr(session.header, "software_version", NA),
     instrument_id |-> GetOr(session.header, "instrument_id", NA)]

\* variant: result number i is joined with patient number i and order
\* number i
_create_session_summary_by_position(session) ==
    [session_info |-> SummarySessionInfo(session),
     statistics |-> SummaryStatistics(session),
     results |->
        [i \in 1..Len(session.results) |->
            SummaryRow(i, session.results[i],
                       IF i <= Len(session.patients) THEN <<session.patients[i]>> ELSE <<>>,
                       IF i <= Len(session.orders) THEN <<session.orders[i]>> ELSE <<>>)]]

_create_session_summary(session) ==
    [session_info |-> SummarySessionInfo(session),
     statistics |-> SummaryStatistics(session),
     results |->
        [i \in 1..Len(session.results) |->
            SummaryRow(i, session.results[i],
                       NextWithSequence(session.patients, session.results[i].sequence),
                       NextWithSequence(session.orders, session.results[i].sequence))]]

----------------------------------------------------------------------------
(* The analyzer: the chunks the serial port delivers.  Records are short   *)
(* instances of the record wire format.                                    *)

MaxEntities == 2

\* "H|\^&|||Alcor^iSED^1.0^42"
recH ==
    <<72, PIPE, 92, CARET, 38, PIPE, PIPE, PIPE,
      65, 108, 99, 111, 114, CARET, 105, 83, 69, 68, CARET,
      49, DOT, 48, CARET, 52, 50>>
\* "H||||A^i": another instrument, its sender field two components long
recH2 == <<72, PIPE, PIPE, PIPE, PIPE, 65, CARET, 105>>
\* "P|1||7"
recP == <<80, PIPE, 49, PIPE, PIPE, 55>>
\* "O|1|S^2"
recO == <<79, PIPE, 49, PIPE, 83, CARET, 50>>
\* "R|1|E|12|m||"
recR == <<82, PIPE, 49, PIPE, 69, PIPE, 49, 50, PIPE, 109, PIPE, PIPE>>
\* "R|1|E|-5|m||"
recRerr == <<82, PIPE, 49, PIPE, 69, PIPE, MINUS, 53, PIPE, 109, PIPE, PIPE>>
\* "R|1|E|12": an R record with four fields
recRshort == <<82, PIPE, 49, PIPE, 69, PIPE, 49, 50>>
\* "L|1|N"
recL == <<76, PIPE, 49, PIPE, 78>>
\* "X|1": unknown tag
recX == <<88, PIPE, 49>>

Payloads ==
    {recH, recH2, recP, recO, recR, recRerr, recRshort, recL, recX,
     recP \o <<CR>> \o recRshort, recX \o <<CR>> \o recP}

\* STX <frame-number> <records> CR ETX <checksum> CR LF
AnalyzerFrame(no, payload) ==
    LET body == <<no>> \o payload \o <<CR, ETX>>
    IN <<STX>> \o body \o Hex02X(SumBytes(body) % 256) \o <<CR, LF>>

\* the same frame with its second checksum character replaced by another
\* hexadecimal digit
CorruptFrame(no, payload) ==
    LET body == <<no>> \o payload \o <<CR, ETX>>
        n == SumBytes(body) % 256
    IN <<STX>> \o body \o <<HexDigit(n \div 16), HexDigit((n + 1) % 16)>> \o <<CR, LF>>

\* the same frame with its checksum in lowercase
LowerChar(c) == IF c >= 65 /\ c <= 90 THEN c + 32 ELSE c

LowercaseFrame(no, payload) ==
    LET body == <<no>> \o payload \o <<CR, ETX>>
        h == Hex02X(SumBytes(body) % 256)
    IN <<STX>> \o body \o <<LowerChar(h[1]), LowerChar(h[2])>> \o <<CR, LF>>

\* the same frame with its ETX lost on the line
NoEtxFrame(no, payload) ==
    LET body == <<no>> \o payload \o <<CR, ETX>>
    IN <<STX, no>> \o payload \o <<CR>> \o Hex02X(SumBytes(body) % 256) \o <<CR, LF>>

\* the same frame with its STX lost on the line
NoStxFrame(no, payload) == Tail(AnalyzerFrame(no, payload))

GoodFrames ==
    {AnalyzerFrame(49, p) : p \in Payloads} \cup {LowercaseFrame(49, recR)}

BadFrames ==
    {CorruptFrame(no, recR) : no \in {49, 50}} \cup {NoEtxFrame(49, recR)}

\* what read_until(LF) can return that starts with STX
StxChunks == GoodFrames \cup BadFrames

\* what read_until(LF) can return that starts with neither STX nor EOT
OtherChunks == {<<ENQ>>, NoStxFrame(49, recR)}

\* what read_until(LF) can return that starts with EOT
EotChunks == {<<EOT>>}

\* what read(1) can return in the listening loop besides ENQ and nothing
IdleBytes == {STX, EOT, 65}

PersistOutcomes == {"ok", "session_file_fails", "summary_file_fails"}

----------------------------------------------------------------------------
(* The engine *)

NumEntities(session) ==
    Len(session.patients) + Len(session.orders) + Len(session.results)

NoTx == [patients |-> 0, orders |-> 0, results |-> 0]

Init ==
    /\ state = "IDLE"
    /\ current_session = _init_session
    /\ last_read = <<>>
    /\ last_write = <<>>
    /\ handed_off = <<>>
    /\ tx_entities = NoTx
    /\ ck_fail_frame = -1
    /\ ck_fail_run = 0
    /\ ck_frame = <<>>
    /\ ck_pc = "idle"
    /\ ck_valid = FALSE
    /\ fn_in = <<>>
    /\ fn_pc = "idle"
    /\ fn_out = <<>>

\* variant: the transmission is entered without the ACK
ListenEnq_no_ack ==
    /\ state = "IDLE"
    /\ state' = "RECEIVING_FRAMES"
    /\ last_read' = <<ENQ>>
    /\ last_write' = <<>>
    /\ handed_off' = <<>>
    /\ tx_entities' = NoTx
    /\ ck_fail_frame' = -1
    /\ ck_fail_run' = 0
    /\ UNCHANGED <<current_session, ckVars, fnVars>>

\* listen_for_data: read(1) returns ENQ; _handle_transmission writes ACK
\* and enters its loop
ListenEnq ==
    /\ state = "IDLE"
    /\ state' = "RECEIVING_FRAMES"
    /\ last_read' = <<ENQ>>
    /\ last_write' = <<ACK>>
    /\ handed_off' = <<>>
    /\ tx_entities' = NoTx
    /\ ck_fail_frame' = -1
    /\ ck_fail_run' = 0
    /\ UNCHANGED <<current_session, ckVars, fnVars>>

\* variant: a byte that is not ENQ is refused with NAK
ListenOther_nak(b) ==
    /\ state = "IDLE"
    /\ b # ENQ
    /\ last_read' = <<b>>
    /\ last_write' = <<NAK>>
    /\ UNCHANGED <<state, current_session, handed_off, tx_entities,
                   ck_fail_frame, ck_fail_run, ckVars, fnVars>>

\* listen_for_data: read(1) returns another byte, which is only logged
ListenOther(b) ==
    /\ state = "IDLE"
    /\ b # ENQ
    /\ last_read' = <<b>>
    /\ last_write' = <<>>
    /\ UNCHANGED <<state, current_session, handed_off, tx_entities,
                   ck_fail_frame, ck_fail_run, ckVars, fnVars>>

\* listen_for_data: read(1) times out and returns nothing
ListenTimeout ==
    /\ state = "IDLE"
    /\ last_read' = <<>>
    /\ last_write' = <<>>
    /\ UNCHANGED <<state, current_session, handed_off, tx_entities,
                   ck_fail_frame, ck_fail_run, ckVars, fnVars>>

\* variant: a timeout is treated like EOT and the session is saved
FrameTimeout_finalizes ==
    /\ state = "RECEIVING_FRAMES"
    /\ state' = "IDLE"
    /\ last_read' = <<>>
    /\ last_write' = <<>>
    /\ handed_off' = Append(handed_off, [current_session EXCEPT !.session_end = TRUE])
    /\ current_session' = _init_session
    /\ UNCHANGED <<tx_entities, ck_fail_frame, ck_fail_run, ckVars, fnVars>>

\* _handle_transmission: read_until returns nothing; break
FrameTimeout ==
    /\ state = "RECEIVING_FRAMES"
    /\ state' = "IDLE"
    /\ last_read' = <<>>
    /\ last_write' = <<>>
    /\ UNCHANGED <<current_session, handed_off, tx_entities,
                   ck_fail_frame, ck_fail_run, ckVars, fnVars>>

\* iSEDHandler._finalize_session: the session left open and the session
\* files written, by the outcome of the two open() calls
_finalize_session(session, outcome) ==
    LET stamped == [session EXCEPT !.session_end = TRUE]
    IN IF outcome = "session_file_fails"
       THEN [session |-> stamped, files |-> <<>>]
       ELSE IF outcome = "summary_file_fails"
       THEN [session |-> stamped, files |-> <<stamped>>]
       ELSE [session |-> _init_session, files |-> <<stamped>>]

\* variant: _finalize_session without its try/except: a file that cannot
\* be written ends listen_for_data
ReceiveEot_failure_halts(chunk, outcome) ==
    /\ state = "RECEIVING_FRAMES"
    /\ StartsWith(chunk, EOT)
    /\ last_read' = chunk
    /\ LET f == _finalize_session(current_session, outcome)
       IN /\ current_session' = f.session
          /\ handed_off' = handed_off \o f.files
    /\ last_write' = <<ACK>>
    /\ state' = IF outcome = "ok" THEN "IDLE" ELSE "STOPPED"
    /\ UNCHANGED <<tx_entities, ck_fail_frame, ck_fail_run, ckVars, fnVars>>

\* variant: after the session a fresh empty one is handed off as well
ReceiveEot_empty_session_too(chunk, outcome) ==
    /\ state = "RECEIVING_FRAMES"
    /\ StartsWith(chunk, EOT)
    /\ last_read' = chunk
    /\ LET f == _finalize_session(current_session, outcome)
       IN /\ current_session' = f.session
          /\ handed_off' = handed_off \o f.files
                \o <<[_init_session EXCEPT !.session_end = TRUE]>>
    /\ last_write' = <<ACK>>
    /\ state' = "IDLE"
    /\ UNCHANGED <<tx_entities, ck_fail_frame, ck_fail_run, ckVars, fnVars>>

\* _handle_transmission: the chunk starts with EOT; ACK, finalize, break
ReceiveEot(chunk, outcome) ==
    /\ state = "RECEIVING_FRAMES"
    /\ StartsWith(chunk, EOT)
    /\ last_read' = chunk
    /\ LET f == _finalize_session(current_session, outcome)
       IN /\ current_session' = f.session
          /\ handed_off' = handed_off \o f.files
    /\ last_write' = <<ACK>>
    /\ state' = "IDLE"
    /\ UNCHANGED <<tx_entities, ck_fail_frame, ck_fail_run, ckVars, fnVars>>

\* _handle_transmission: the chunk starts with STX; process it, answer ACK
\* or NAK
ReceiveFrame(frame_data) ==
    /\ state = "RECEIVING_FRAMES"
    /\ StartsWith(frame_data, STX)
    /\ last_read' = frame_data
    /\ LET r == _process_frame(current_session, frame_data)
           no == IF Len(frame_data) > 1 THEN frame_data[2] ELSE -1
       IN /\ NumEntities(r.session) <= MaxEntities
          /\ current_session' = r.session
          /\ last_write' = IF r.success THEN <<ACK>> ELSE <<NAK>>
          /\ tx_entities' =
                [patients |-> tx_entities.patients
                                + Len(r.session.patients) - Len(current_session.patients),
                 orders |-> tx_entities.orders
                                + Len(r.session.orders) - Len(current_session.orders),
                 results |-> tx_entities.results
                                + Len(r.session.results) - Len(current_session.results)]
          /\ IF _verify_checksum(frame_data)
             THEN ck_fail_frame' = -1 /\ ck_fail_run' = 0
             ELSE /\ ck_fail_frame' = no
                  /\ ck_fail_run' = IF ck_fail_frame = no
                                    THEN Min(ck_fail_run + 1, max_retries + 1)
                                    ELSE 1
    /\ UNCHANGED <<state, handed_off, ckVars, fnVars>>

\* variant: a chunk that starts with neither EOT nor STX is refused with NAK
ReceiveOther_nak(chunk) ==
    /\ state = "RECEIVING_FRAMES"
    /\ chunk # <<>>
    /\ ~StartsWith(chunk, EOT)
    /\ ~StartsWith(chunk, STX)
    /\ last_read' = chunk
    /\ last_write' = <<NAK>>
    /\ UNCHANGED <<state, current_session, handed_off, tx_entities,
                   ck_fail_frame, ck_fail_run, ckVars, fnVars>>

\* _handle_transmission: a chunk that starts with neither EOT nor STX is
\* dropped without an answer
ReceiveOther(chunk) ==
    /\ state = "RECEIVING_FRAMES"
    /\ chunk # <<>>
    /\ ~StartsWith(chunk, EOT)
    /\ ~StartsWith(chunk, STX)
    /\ last_read' = chunk
    /\ last_write' = <<>>
    /\ UNCHANGED <<state, current_session, handed_off, tx_entities,
                   ck_fail_frame, ck_fail_run, ckVars, fnVars>>

Next ==
    \/ ListenEnq
    \/ \E b \in IdleBytes : ListenOther(b)
    \/ ListenTimeout
    \/ FrameTimeout
    \/ \E chunk \in EotChunks, outcome \in PersistOutcomes : ReceiveEot(chunk, outcome)
    \/ \E frame_data \in StxChunks : ReceiveFrame(frame_data)
    \/ \E chunk \in OtherChunks : ReceiveOther(chunk)

Spec == Init /\ [][Next]_vars

----------------------------------------------------------------------------
(* The engine with its operator.  Ctrl-C raises KeyboardInterrupt in the   *)
(* main thread wherever it is: blocked in read(1), blocked in read_until   *)
(* with or without part of a chunk read, or processing a frame.  To place  *)
(* the interrupt, the reading of a frame takes two steps here: the first   *)
(* bytes arrive (state "MID_FRAME"), then read_until returns and the frame *)
(* is processed and answered.  "STOPPED": listen_for_data has returned.    *)

\* a valid frame, a frame of two records, a corrupt frame, and the first
\* bytes of a frame that read_until returns when its timeout expires before
\* the LF
ShutdownFrames ==
    {AnalyzerFrame(49, recP), AnalyzerFrame(49, recP \o <<CR>> \o recO),
     CorruptFrame(49, recR), Slice(AnalyzerFrame(49, recP), 0, 5)}

\* read_until has consumed the first bytes of a frame and waits for more
BeginFrame ==
    /\ state = "RECEIVING_FRAMES"
    /\ state' = "MID_FRAME"
    /\ last_read' = <<>>
    /\ last_write' = <<>>
    /\ UNCHANGED <<current_session, handed_off, tx_entities,
                   ck_fail_frame, ck_fail_run, ckVars, fnVars>>

\* read_until returns the frame; it is processed and answered as in
\* ReceiveFrame
FinishFrame(frame_data) ==
    /\ state = "MID_FRAME"
    /\ StartsWith(frame_data, STX)
    /\ state' = "RECEIVING_FRAMES"
    /\ last_read' = frame_data
    /\ LET r == _process_frame(current_session, frame_data)
           no == IF Len(frame_data) > 1 THEN frame_data[2] ELSE -1
       IN /\ NumEntities(r.session) <= MaxEntities
          /\ current_session' = r.session
          /\ last_write' = IF r.success THEN <<ACK>> ELSE <<NAK>>
          /\ tx_entities' =
                [patients |-> tx_entities.patients
                                + Len(r.session.patients) - Len(current_session.patients),
                 orders |-> tx_entities.orders
                                + Len(r.session.orders) - Len(current_session.orders),
                 results |-> tx_entities.results
                                + Len(r.session.results) - Len(current_session.results)]
          /\ IF _verify_checksum(frame_data)
             THEN ck_fail_frame' = -1 /\ ck_fail_run' = 0
             ELSE /\ ck_fail_frame' = no
                  /\ ck_fail_run' = IF ck_fail_frame = no
                                    THEN Min(ck_fail_run + 1, max_retries + 1)
                                    ELSE 1
    /\ UNCHANGED <<handed_off, ckVars, fnVars>>

\* KeyboardInterrupt while the engine is blocked in read(1) or in
\* read_until: _handle_transmission's `except Exception` does not take it,
\* listen_for_data's `except KeyboardInterrupt` does; the port is closed and
\* nothing is written
Interrupt ==
    /\ state \in {"IDLE", "RECEIVING_FRAMES", "MID_FRAME"}
    /\ state' = "STOPPED"
    /\ last_read' = <<>>
    /\ last_write' = <<>>
    /\ UNCHANGED <<current_session, handed_off, tx_entities,
                   ck_fail_frame, ck_fail_run, ckVars, fnVars>>

\* KeyboardInterrupt inside the try block of _verify_checksum: the bare
\* except takes it and returns False, the frame is answered with NAK and
\* the engine goes on
InterruptInChecksum(frame_data) ==
    /\ state = "MID_FRAME"
    /\ StartsWith(frame_data, STX)
    /\ state' = "RECEIVING_FRAMES"
    /\ last_read' = frame_data
    /\ last_write' = <<NAK>>
    /\ ck_fail_frame' = (IF Len(frame_data) > 1 THEN frame_data[2] ELSE -1)
    /\ ck_fail_run' = IF ck_fail_frame = ck_fail_frame'
                      THEN Min(ck_fail_run + 1, max_retries + 1)
                      ELSE 1
    /\ UNCHANGED <<current_session, handed_off, tx_entities, ckVars, fnVars>>

\* KeyboardInterrupt in _process_frame after the checksum passed and k of
\* the records were processed: the session keeps those records, nothing is
\* written and listen_for_data returns
InterruptInDecode(frame_data, k) ==
    /\ state = "MID_FRAME"
    /\ StartsWith(frame_data, STX)
    /\ _verify_checksum(frame_data)
    /\ k <= Len(RecordsOf(frame_data))
    /\ LET r == ProcessRecords(current_session, SubSeq(RecordsOf(frame_data), 1, k))
       IN /\ ~r.raised
          /\ NumEntities(r.session) <= MaxEntities
          /\ current_session' = r.session
          /\ tx_entities' =
                [patients |-> tx_entities.patients
                                + Len(r.session.patients) - Len(current_session.patients),
                 orders |-> tx_entities.orders
                                + Len(r.session.orders) - Len(current_session.orders),
                 results |-> tx_entities.results
                                + Len(r.session.results) - Len(current_session.results)]
    /\ state' = "STOPPED"
    /\ last_read' = frame_data
    /\ last_write' = <<>>
    /\ UNCHANGED <<handed_off, ck_fail_frame, ck_fail_run, ckVars, fnVars>>

NextShutdown ==
    \/ ListenEnq
    \/ ListenTimeout
    \/ FrameTimeout
    \/ \E chunk \in EotChunks, outcome \in PersistOutcomes : ReceiveEot(chunk, outcome)
    \/ BeginFrame
    \/ \E frame_data \in ShutdownFrames : FinishFrame(frame_data)
    \/ Interrupt
    \/ \E frame_data \in ShutdownFrames : InterruptInChecksum(frame_data)
    \/ \E frame_data \in ShutdownFrames, k \in 0..2 : InterruptInDecode(frame_data, k)

SpecShutdown == Init /\ [][NextShutdown]_vars

----------------------------------------------------------------------------
(* The engine as a loop that never stops reading.  listen_for_data and     *)
(* _handle_transmission are `while True` loops around a read with a        *)
(* timeout: every read returns, with a chunk or empty, and the loop then   *)
(* takes its next step.  The analyzer chooses what each read returns.      *)

LiveFrames ==
    {AnalyzerFrame(49, recP), AnalyzerFrame(50, recR),
     CorruptFrame(49, recR), CorruptFrame(50, recR)}

NextLive ==
    \/ ListenEnq
    \/ ListenTimeout
    \/ FrameTimeout
    \/ \E chunk \in EotChunks, outcome \in PersistOutcomes : ReceiveEot(chunk, outcome)
    \/ \E frame_data \in LiveFrames : ReceiveFrame(frame_data)

SpecLive == Init /\ [][NextLive]_vars /\ WF_vars(NextLive)

----------------------------------------------------------------------------
(* The engine fed frames of several records: two records of one type, an   *)
(* empty record between two CRs, a header before a patient, a record whose *)
(* processor raises after an earlier record of the frame was applied.      *)

\* "P|2||9"
recP2 == <<80, PIPE, 50, PIPE, PIPE, 57>>

RecordPayloads ==
    {recP \o <<CR>> \o recP2,
     recP \o <<CR, CR>> \o recO,
     recO \o <<CR>> \o recR,
     recH \o <<CR>> \o recP2,
     recH2,
     recP \o <<CR>> \o recRshort,
     recRerr \o <<CR>> \o recL,
     recL}

RecordFrames ==
    {AnalyzerFrame(49, payload) : payload \in RecordPayloads}
        \cup {CorruptFrame(49, recP \o <<CR>> \o recP2)}

NextRecords ==
    \/ ListenEnq
    \/ FrameTimeout
    \/ \E chunk \in EotChunks, outcome \in PersistOutcomes : ReceiveEot(chunk, outcome)
    \/ \E frame_data \in RecordFrames : ReceiveFrame(frame_data)

SpecRecords == Init /\ [][NextRecords]_vars

----------------------------------------------------------------------------
(* The checksum validator on its own: every byte string over CkAlphabet of *)
(* at most MaxCkLen bytes is handed to _verify_checksum.                   *)

MaxCkLen == 5

\* STX, ETX, a payload byte whose sum with ETX is 0x0A, a payload byte
\* whose sum with ETX wraps to 0x00, and the characters '0', 'A', 'a'
CkAlphabet == {STX, ETX, 7, 253, 48, 65, 97}

CkFrames == UNION {[1..n -> CkAlphabet] : n \in 0..MaxCkLen}

InitChecksum ==
    /\ state = "IDLE"
    /\ current_session = _init_session
    /\ last_read = <<>>
    /\ last_write = <<>>
    /\ handed_off = <<>>
    /\ tx_entities = NoTx
    /\ ck_fail_frame = -1
    /\ ck_fail_run = 0
    /\ ck_frame \in CkFrames
    /\ ck_pc = "in"
    /\ ck_valid = FALSE
    /\ fn_in = <<>>
    /\ fn_pc = "idle"
    /\ fn_out = <<>>

VerifyChecksum ==
    /\ ck_pc = "in"
    /\ IF _verify_checksum_raises(ck_frame)
       THEN ck_pc' = "raised" /\ ck_valid' = ck_valid
       ELSE ck_pc' = "out" /\ ck_valid' = _verify_checksum(ck_frame)
    /\ UNCHANGED <<ck_frame, engineVars, fnVars>>

NextChecksum == VerifyChecksum

SpecChecksum == InitChecksum /\ [][NextChecksum]_vars

----------------------------------------------------------------------------
(* The checksum validator on a frame and on the same frame with one byte   *)
(* replaced.  The frame is STX, a body of at most MaxBodyLen bytes, ETX,   *)
(* the two checksum characters of body and ETX, and CR LF or nothing.  The *)
(* validator runs on it; if it reports valid, one byte between the byte    *)
(* after STX and ETX, both included, is replaced with a different value    *)
(* and the validator runs again.                                           *)

MaxBodyLen == 3

\* '1', '0', '3', '|'
BodyAlphabet == {49, 48, 51, PIPE}

\* the values a byte is replaced with
ReplacementBytes == {STX, ETX, 0, 48, 49, 51, 255}

CorruptibleFrames ==
    {<<STX>> \o body \o <<ETX>> \o Hex02X(SumBytes(body \o <<ETX>>) % 256) \o trailer :
        body \in UNION {[1..n -> BodyAlphabet] : n \in 0..MaxBodyLen},
        trailer \in {<<>>, <<CR, LF>>}}

InitCorrupt ==
    /\ state = "IDLE"
    /\ current_session = _init_session
    /\ last_read = <<>>
    /\ last_write = <<>>
    /\ handed_off = <<>>
    /\ tx_entities = NoTx
    /\ ck_fail_frame = -1
    /\ ck_fail_run = 0
    /\ ck_frame \in CorruptibleFrames
    /\ ck_pc = "in"
    /\ ck_valid = FALSE
    /\ fn_in = <<>>
    /\ fn_pc = "idle"
    /\ fn_out = <<>>

\* frame_data[at] = byte, at counted from 0, on a frame the validator
\* reported valid
ReplaceByte(at, byte) ==
    /\ ck_pc = "out"
    /\ ck_valid
    /\ fn_pc = "idle"
    /\ at > Find(ck_frame, STX)
    /\ at <= Find(ck_frame, ETX)
    /\ ck_frame[at + 1] # byte
    /\ fn_in' = [frame_data |-> ck_frame, at |-> at, byte |-> byte]
    /\ fn_pc' = "replaced"
    /\ ck_frame' = [ck_frame EXCEPT ![at + 1] = byte]
    /\ ck_pc' = "in"
    /\ UNCHANGED <<ck_valid, fn_out, engineVars>>

NextCorrupt ==
    \/ VerifyChecksum
    \/ \E at \in 1..(MaxBodyLen + 1), byte \in ReplacementBytes : ReplaceByte(at, byte)

SpecCorrupt == InitCorrupt /\ [][NextCorrupt]_vars

----------------------------------------------------------------------------
(* The record decoder on its own: one record of every tag, with every      *)
(* number of pipe fields from the tag alone up to MaxFields and every      *)
(* number of caret components per field up to MaxParts, arrives as the     *)
(* only record of a valid frame of a fresh session.                        *)

MaxFields == 27

MaxParts == 4

\* H, P, O, R, L and the unknown tag X
RecordTags == {72, 80, 79, 82, 76, 88}

\* component j of field i: a letter naming the field and a digit naming
\* the component
WireComponent(i, j) == <<96 + i, 48 + j>>

RECURSIVE WireField(_, _)
WireField(i, parts) ==
    IF parts = 0 THEN <<>>
    ELSE IF parts = 1 THEN WireComponent(i, 1)
    ELSE WireField(i, parts - 1) \o <<CARET>> \o WireComponent(i, parts)

\* the record of n pipe fields, the tag being the first
RECURSIVE WireRecord(_, _, _)
WireRecord(tag, n, parts) ==
    IF n = 1 THEN <<tag>>
    ELSE WireRecord(tag, n - 1, parts) \o <<PIPE>> \o WireField(n - 1, parts)

WireRecords ==
    {WireRecord(tag, n, parts) :
        tag \in RecordTags, n \in 1..MaxFields, parts \in 0..MaxParts}

InitDecode ==
    /\ state = "IDLE"
    /\ current_session = _init_session
    /\ last_read = <<>>
    /\ last_write = <<>>
    /\ handed_off = <<>>
    /\ tx_entities = NoTx
    /\ ck_fail_frame = -1
    /\ ck_fail_run = 0
    /\ ck_frame = <<>>
    /\ ck_pc = "idle"
    /\ ck_valid = FALSE
    /\ fn_in \in WireRecords
    /\ fn_pc = "_process_frame"
    /\ fn_out = <<>>

Decode ==
    /\ fn_pc = "_process_frame"
    /\ fn_out' = _process_frame(_init_session, AnalyzerFrame(49, fn_in))
    /\ fn_pc' = "decoded"
    /\ UNCHANGED <<fn_in, engineVars, ckVars>>

NextDecode == Decode

SpecDecode == InitDecode /\ [][NextDecode]_vars

----------------------------------------------------------------------------
(* The result interpreter on its own: every raw value of at most           *)
(* MaxValueLen characters over ValueAlphabet, with every abnormal flag.    *)

MaxValueLen == 3

\* '-', '.', ' ', the digits, and the letters of "nan"
ValueAlphabet == {MINUS, DOT, 32, 97, 110} \cup 48..57

RawValues == UNION {[1..n -> ValueAlphabet] : n \in 0..MaxValueLen}

\* '', '<', '>', and 'H', a flag that is neither range flag
AbnormalFlags == {<<>>, <<LESS>>, <<GREATER>>, <<72>>}

InitInterpret ==
    /\ state = "IDLE"
    /\ current_session = _init_session
    /\ last_read = <<>>
    /\ last_write = <<>>
    /\ handed_off = <<>>
    /\ tx_entities = NoTx
    /\ ck_fail_frame = -1
    /\ ck_fail_run = 0
    /\ ck_frame = <<>>
    /\ ck_pc = "idle"
    /\ ck_valid = FALSE
    /\ fn_in \in [value : RawValues, abnormal_flag : AbnormalFlags]
    /\ fn_pc = "_interpret_result"
    /\ fn_out = <<>>

Interpret ==
    /\ fn_pc = "_interpret_result"
    /\ fn_out' = _interpret_result(fn_in.value, fn_in.abnormal_flag)
    /\ fn_pc' = "interpreted"
    /\ UNCHANGED <<fn_in, engineVars, ckVars>>

NextInterpret == Interpret

SpecInterpret == InitInterpret /\ [][NextInterpret]_vars

----------------------------------------------------------------------------
(* The session summary on its own: sessions of at most MaxRows patients,   *)
(* MaxRows orders and MaxRows results, decoded from records whose sequence *)
(* numbers repeat and differ.                                              *)

MaxRows == 2

\* "P|1||7||A", "P|1||8||B", "P|2||9||C"
SummaryPatients ==
    {PatientOf(Split(rec, PIPE)) : rec \in
        {<<80, PIPE, 49, PIPE, PIPE, 55, PIPE, PIPE, 65>>,
         <<80, PIPE, 49, PIPE, PIPE, 56, PIPE, PIPE, 66>>,
         <<80, PIPE, 50, PIPE, PIPE, 57, PIPE, PIPE, 67>>}}

\* "O|1|S^2", "O|1|T^3", "O|2|U^4"
SummaryOrders ==
    {OrderOf(Split(rec, PIPE)) : rec \in
        {recO,
         <<79, PIPE, 49, PIPE, 84, CARET, 51>>,
         <<79, PIPE, 50, PIPE, 85, CARET, 52>>}}

\* "R|1|E|12|m||", "R|2|E|-5|m||", "R|1|E|1|m||<"
SummaryResults ==
    {ResultOf(Split(rec, PIPE)) : rec \in
        {recR,
         <<82, PIPE, 50, PIPE, 69, PIPE, MINUS, 53, PIPE, 109, PIPE, PIPE>>,
         <<82, PIPE, 49, PIPE, 69, PIPE, 49, PIPE, 109, PIPE, PIPE, LESS>>}}

SeqsUpTo(S, n) == UNION {[1..k -> S] : k \in 0..n}

SummarySessions ==
    {[_init_session EXCEPT !.patients = ps, !.orders = os, !.results = rs,
                           !.session_end = TRUE] :
        ps \in SeqsUpTo(SummaryPatients, MaxRows),
        os \in SeqsUpTo(SummaryOrders, MaxRows),
        rs \in SeqsUpTo(SummaryResults, MaxRows)}

InitSummary ==
    /\ state = "IDLE"
    /\ current_session = _init_session
    /\ last_read = <<>>
    /\ last_write = <<>>
    /\ handed_off = <<>>
    /\ tx_entities = NoTx
    /\ ck_fail_frame = -1
    /\ ck_fail_run = 0
    /\ ck_frame = <<>>
    /\ ck_pc = "idle"
    /\ ck_valid = FALSE
    /\ fn_in \in SummarySessions
    /\ fn_pc = "_create_session_summary"
    /\ fn_out = <<>>

Summarize ==
    /\ fn_pc = "_create_session_summary"
    /\ fn_out' = _create_session_summary(fn_in)
    /\ fn_pc' = "summarized"
    /\ UNCHANGED <<fn_in, engineVars, ckVars>>

NextSummary == Summarize

SpecSummary == InitSummary /\ [][NextSummary]_vars

----------------------------------------------------------------------------
(* Properties *)

\* The checksum rule as the wire contract states it: the two ASCII
\* characters after the first ETX spell, in either case, the sum of the
\* bytes after the first STX through that ETX, modulo 256, in hexadecimal.
HexChars == <<48, 49, 50, 51, 52, 53, 54, 55, 56, 57, 65, 66, 67, 68, 69, 70>>

SameLetterAnyCase(a, b) ==
    \/ a = b
    \/ a \in 65..90 /\ b = a + 32
    \/ a \in 97..122 /\ b = a - 32

RECURSIVE SumFromTo(_, _, _)
SumFromTo(f, i, j) == IF i > j THEN 0 ELSE f[i] + SumFromTo(f, i + 1, j)

DeclaredChecksumMatches(f) ==
    \E s \in 1..Len(f), e \in 1..Len(f) :
        /\ f[s] = STX /\ \A k \in 1..(s - 1) : f[k] # STX
        /\ f[e] = ETX /\ \A k \in 1..(e - 1) : f[k] # ETX
        /\ e + 2 <= Len(f)
        /\ f[e + 1] < 128 /\ f[e + 2] < 128
        /\ LET n == SumFromTo(f, s + 1, e) % 256
           IN /\ SameLetterAnyCase(f[e + 1], HexChars[(n \div 16) + 1])
              /\ SameLetterAnyCase(f[e + 2], HexChars[(n % 16) + 1])

\* a frame chunk was the last thing read inside the transmission loop
FrameJustRead == state = "RECEIVING_FRAMES" /\ StartsWith(last_read, STX)

\* C1: in RECEIVING_FRAMES every frame that starts with STX and has a valid
\* checksum is answered with ACK, whatever its payload.
C1_ValidFrameAlwaysAcked ==
    (FrameJustRead /\ DeclaredChecksumMatches(last_read)) => last_write = <<ACK>>

\* C2: once more than max_retries consecutive frames with the same frame
\* number have failed the checksum, the engine has left RECEIVING_FRAMES for
\* IDLE and no session has been finalized for the transmission.
C2_RetryBound ==
    ck_fail_run > max_retries => (state = "IDLE" /\ handed_off = <<>>)

\* C3: a frame starting with STX whose checksum suffix does not match is
\* answered with NAK, the engine stays in RECEIVING_FRAMES and the open
\* session is unchanged.
C3_BadChecksumNak ==
    [][(state = "RECEIVING_FRAMES" /\ StartsWith(last_read', STX)
          /\ ~DeclaredChecksumMatches(last_read'))
       => (last_write' = <<NAK>> /\ state' = "RECEIVING_FRAMES"
             /\ current_session' = current_session)]_vars

C3_Witness ==
    /\ FrameJustRead
    /\ ~DeclaredChecksumMatches(last_read)
    /\ last_write = <<NAK>>
    /\ NumEntities(current_session) > 0

\* C4: a session finalized at EOT holds exactly the entities decoded since
\* the most recent ENQ, none from an earlier transmission.
C4_SessionIsOneTransmission ==
    \A i \in 1..Len(handed_off) :
        /\ Len(handed_off[i].patients) = tx_entities.patients
        /\ Len(handed_off[i].orders) = tx_entities.orders
        /\ Len(handed_off[i].results) = tx_entities.results

\* C5: in IDLE, reading ENQ makes the engine write exactly ACK and enter
\* RECEIVING_FRAMES.
C5_EnqAcked ==
    [][(state = "IDLE" /\ last_read' = <<ENQ>>)
       => (last_write' = <<ACK>> /\ state' = "RECEIVING_FRAMES")]_vars

C5_Witness ==
    /\ state = "RECEIVING_FRAMES"
    /\ last_read = <<ENQ>>
    /\ last_write = <<ACK>>

\* C6: a chunk beginning with EOT makes the engine write ACK, finalize the
\* session (end time stamped on what is handed off) and return to IDLE; when
\* the transmission delivered one R record and no other entity, the
\* finalized session contains exactly one Result.
C6_EotFinalizes ==
    [][(state = "RECEIVING_FRAMES" /\ StartsWith(last_read', EOT))
       => /\ last_write' = <<ACK>>
          /\ state' = "IDLE"
          /\ \A i \in 1..Len(handed_off') : handed_off'[i].session_end
          /\ tx_entities = [patients |-> 0, orders |-> 0, results |-> 1]
             => \A i \in 1..Len(handed_off') : Len(handed_off'[i].results) = 1]_vars

\* C7: after every finalization the open session is a fresh empty one,
\* whether or not persistence succeeded, and nothing is appended to a
\* session whose end timestamp has been stamped.
C7_FreshAfterFinalize ==
    [][/\ (state = "RECEIVING_FRAMES" /\ StartsWith(last_read', EOT))
          => current_session' = _init_session
       /\ current_session.session_end
          => (current_session' = _init_session
                \/ /\ current_session'.patients = current_session.patients
                   /\ current_session'.orders = current_session.orders
                   /\ current_session'.results = current_session.results)]_vars

\* C8: in RECEIVING_FRAMES a read that returns nothing takes the engine back
\* to IDLE with nothing written and nothing finalized.
C8_TimeoutAbandons ==
    [][(state = "RECEIVING_FRAMES" /\ last_read' = <<>>)
       => /\ state' = "IDLE"
          /\ last_write' = <<>>
          /\ handed_off' = handed_off
          /\ current_session' = current_session]_vars

C8_Witness ==
    /\ state = "IDLE"
    /\ last_read = <<>>
    /\ last_write = <<>>
    /\ tx_entities.patients > 0
    /\ handed_off = <<>>
    /\ ~current_session.session_end

\* the frame holds a record whose tag is L
HasTerminator(frame_data) ==
    \E i \in 1..Len(RecordsOf(frame_data)) : RecordsOf(frame_data)[i][1] = 76

\* C9: when an L record has been decoded from a validated frame, the session
\* that was open has been finalized.
C9_TerminatorFinalizes ==
    (FrameJustRead /\ last_write = <<ACK>> /\ HasTerminator(last_read))
        => (handed_off # <<>> \/ current_session.session_end)

\* C10: the validator reports a frame valid exactly when the two characters
\* after the first ETX spell, case-insensitively, the modulo-256 sum of the
\* bytes after STX through ETX as two hexadecimal digits.
C10_ChecksumIff ==
    ck_pc = "out" => (ck_valid <=> DeclaredChecksumMatches(ck_frame))

\* a frame accepted with a lowercase checksum character
C10_Witness ==
    /\ ck_pc = "out"
    /\ ck_valid
    /\ ck_frame[Find(ck_frame, ETX) + 3] = 97

\* C11: the checksum validator returns a boolean for every byte string and
\* never raises; a byte string with no STX, with no ETX, with fewer than two
\* bytes after the first ETX, or with a byte that is not ASCII in the
\* checksum position is reported invalid.
MalformedForChecksum(f) ==
    LET etx_at == Find(f, ETX) + 1
    IN \/ \A i \in 1..Len(f) : f[i] # STX
       \/ \A i \in 1..Len(f) : f[i] # ETX
       \/ Len(f) - etx_at < 2
       \/ f[etx_at + 1] >= 128
       \/ f[etx_at + 2] >= 128

C11_ValidatorTotal ==
    ck_pc # "in" =>
        /\ ck_pc = "out"
        /\ ck_valid \in BOOLEAN
        /\ MalformedForChecksum(ck_frame) => ck_valid = FALSE

\* a byte string with STX, ETX and two bytes after ETX, one of them not
\* ASCII, was judged
C11_Witness ==
    /\ ck_pc = "out"
    /\ Find(ck_frame, STX) # -1
    /\ Find(ck_frame, ETX) # -1
    /\ Len(ck_frame) >= Find(ck_frame, ETX) + 3
    /\ ck_frame[Find(ck_frame, ETX) + 2] = 253
    /\ ~ck_valid

\* C12: while receiving frames, every chunk that is a malformed frame (its
\* STX or its ETX is missing) is answered with NAK, as a checksum mismatch is.
MalformedFrame(chunk) ==
    /\ chunk # <<>>
    /\ chunk[Len(chunk)] = LF
    /\ \/ \A i \in 1..Len(chunk) : chunk[i] # STX
       \/ \A i \in 1..Len(chunk) : chunk[i] # ETX

C12_MalformedFrameNak ==
    (state = "RECEIVING_FRAMES" /\ MalformedFrame(last_read)) =>
        last_write = <<NAK>>

\* C13: decoding never fails on a short record: a record with tag H, P, O,
\* R or L and any number of fields, down to the tag alone, is decoded into
\* its entity without raising, and the frame carrying it is processed to
\* completion.
C13_ShortRecordDecodes ==
    (fn_pc = "decoded" /\ fn_in[1] \in {72, 80, 79, 82, 76}) =>
        /\ fn_out.success
        /\ fn_in[1] = 72 => Len(fn_out.session.header) = 1
        /\ fn_in[1] = 80 => Len(fn_out.session.patients) = 1
        /\ fn_in[1] = 79 => Len(fn_out.session.orders) = 1
        /\ fn_in[1] = 82 => Len(fn_out.session.results) = 1

\* C14: in every decoded entity, a declared field whose source pipe field
\* or caret sub-field is absent from the record is the empty string; this
\* holds for Header (manufacturer, product, software version and
\* instrument id included), Patient, Order and Result.
NumFields(record) == 1 + Cardinality({k \in 1..Len(record) : record[k] = PIPE})

\* pipe field i (the tag being field 0) is absent
FieldAbsent(record, i) == NumFields(record) <= i

\* caret sub-field j (from 0) of pipe field i is absent
SubFieldAbsent(record, i, j) ==
    \/ FieldAbsent(record, i)
    \/ LET field == Split(record, PIPE)[i + 1]
       IN Cardinality({k \in 1..Len(field) : field[k] = CARET}) < j

C14_AbsentFieldsDefaultEmpty ==
    (fn_pc = "decoded" /\ fn_out.success) =>
        /\ fn_in[1] = 72 =>
            LET h == fn_out.session.header[1]
            IN /\ SubFieldAbsent(fn_in, 4, 0) => h.manufacturer = <<>>
               /\ SubFieldAbsent(fn_in, 4, 1) => h.product = <<>>
               /\ SubFieldAbsent(fn_in, 4, 2) => h.software_version = <<>>
               /\ SubFieldAbsent(fn_in, 4, 3) => h.instrument_id = <<>>
               /\ FieldAbsent(fn_in, 13) => h.message_datetime = <<>>
               /\ FieldAbsent(fn_in, 11) => h.processing_id = <<>>
               /\ FieldAbsent(fn_in, 12) => h.version_number = <<>>
        /\ fn_in[1] = 80 =>
            LET p == fn_out.session.patients[1]
            IN /\ FieldAbsent(fn_in, 1) => p.sequence = <<>>
               /\ FieldAbsent(fn_in, 3) => p.patient_id = <<>>
               /\ FieldAbsent(fn_in, 5) => p.patient_name = <<>>
               /\ FieldAbsent(fn_in, 7) => p.birthdate = <<>>
               /\ FieldAbsent(fn_in, 8) => p.sex = <<>>
               /\ FieldAbsent(fn_in, 13) => p.attending_physician = <<>>
        /\ fn_in[1] = 79 =>
            LET o == fn_out.session.orders[1]
            IN /\ FieldAbsent(fn_in, 1) => o.sequence = <<>>
               /\ SubFieldAbsent(fn_in, 2, 0) => o.sample_id = <<>>
               /\ SubFieldAbsent(fn_in, 2, 1) => o.rotor_location = <<>>
               /\ FieldAbsent(fn_in, 4) => o.test_id = <<>>
               /\ FieldAbsent(fn_in, 25) => o.report_type = <<>>
        /\ fn_in[1] = 82 =>
            LET r == fn_out.session.results[1]
            IN /\ FieldAbsent(fn_in, 1) => r.sequence = <<>>
               /\ FieldAbsent(fn_in, 2) => r.test_id = <<>>
               /\ FieldAbsent(fn_in, 3) => r.value = <<>>
               /\ FieldAbsent(fn_in, 4) => r.units = <<>>
               /\ FieldAbsent(fn_in, 6) => r.abnormal_flag = <<>>
               /\ FieldAbsent(fn_in, 8) => r.status = <<>>
               /\ FieldAbsent(fn_in, 11) => r.test_start = <<>>
               /\ FieldAbsent(fn_in, 12) => r.test_complete = <<>>
               /\ FieldAbsent(fn_in, 13) => r.instrument_id = <<>>

\* C15: for every raw value and abnormal flag: a raw value that starts with
\* '-' gives the error table entry for the codes -1, -2, -3, -4, -5, -7, -8,
\* -9, -10, -11, -12, and otherwise an unknown error carrying the raw code,
\* whatever the flag; else the flag '<' gives below range; else the flag '>'
\* gives above range; else a numeric raw value gives a normal measurement and
\* a raw value that is not numeric gives an invalid format carrying the raw
\* string.
DeclaredErrorCodes ==
    {<<MINUS, 49>>, <<MINUS, 50>>, <<MINUS, 51>>, <<MINUS, 52>>, <<MINUS, 53>>,
     <<MINUS, 55>>, <<MINUS, 56>>, <<MINUS, 57>>,
     <<MINUS, 49, 48>>, <<MINUS, 49, 49>>, <<MINUS, 49, 50>>}

ErrorTexts ==
    {"No flow detected", "No spike detected", "Reverse flow detected",
     "Insufficient data points", "Sample too dark", "Sample too clear",
     "Withdrawal error", "Flow in error", "Flow out error",
     "Acquisition error", "Trigger delay error"}

\* a decimal number: an optional sign, digits with at most one decimal
\* point and at least one digit, white space around it allowed
IsDecimalNumber(s) ==
    \E a \in 0..Len(s), b \in 0..Len(s) :
        /\ a <= b
        /\ \A i \in 1..Len(s) : (i <= a \/ i > b) => IsSpace(s[i])
        /\ LET t == Slice(s, a, b)
               u == IF t # <<>> /\ t[1] \in {MINUS, 43} THEN Tail(t) ELSE t
           IN /\ \E i \in 1..Len(u) : IsDigit(u[i])
              /\ \A i \in 1..Len(u) : IsDigit(u[i]) \/ u[i] = DOT
              /\ Cardinality({i \in 1..Len(u) : u[i] = DOT}) <= 1

C15_Interpretation ==
    fn_pc = "interpreted" =>
        LET value == fn_in.value
            flag == fn_in.abnormal_flag
        IN IF value # <<>> /\ value[1] = MINUS
           THEN IF value \in DeclaredErrorCodes
                THEN fn_out.text \in ErrorTexts /\ fn_out.arg = <<>>
                ELSE fn_out = [text |-> "Unknown error: ", arg |-> value]
           ELSE IF flag = <<LESS>>
           THEN fn_out.text = "Below range (< 1 mm/hr)"
           ELSE IF flag = <<GREATER>>
           THEN fn_out.text = "Above range (> 130 mm/hr)"
           ELSE IF IsDecimalNumber(value)
           THEN fn_out.text = "Normal measurement: "
           ELSE fn_out = [text |-> "Invalid format: ", arg |-> value]

\* C16: a valid frame carrying the H record whose fifth pipe field is
\* 'Alcor^iSED^1.0^42' is answered with ACK and leaves the session header
\* with manufacturer 'Alcor', product 'iSED', software version '1.0' and
\* instrument id '42'; in general the caret components of that field give
\* manufacturer, product, software version and instrument id, in this order.
SepPositions(s, sep) == {k \in 1..Len(s) : s[k] = sep}

NumPieces(s, sep) == 1 + Cardinality(SepPositions(s, sep))

\* piece j (from 0) of s cut at every sep; j < NumPieces(s, sep)
NthPiece(s, sep, j) ==
    LET at(n) == CHOOSE k \in SepPositions(s, sep) :
                    Cardinality({m \in SepPositions(s, sep) : m < k}) = n
        first == IF j = 0 THEN 1 ELSE at(j - 1) + 1
        last == IF j = NumPieces(s, sep) - 1 THEN Len(s) ELSE at(j) - 1
    IN SubSeq(s, first, last)

\* the payload of a frame that carries one record
OnlyRecord(frame_data) == SubSeq(frame_data, 3, Len(frame_data) - 6)

HeaderFrameJustRead ==
    /\ FrameJustRead
    /\ DeclaredChecksumMatches(last_read)
    /\ last_read[3] = 72
    /\ SepPositions(OnlyRecord(last_read), CR) = {}
    /\ NumPieces(OnlyRecord(last_read), PIPE) >= 5

C16_HeaderSenderFields ==
    /\ (FrameJustRead /\ last_read = AnalyzerFrame(49, recH)) =>
          /\ last_write = <<ACK>>
          /\ Len(current_session.header) = 1
          /\ current_session.header[1].manufacturer = <<65, 108, 99, 111, 114>>
          /\ current_session.header[1].product = <<105, 83, 69, 68>>
          /\ current_session.header[1].software_version = <<49, DOT, 48>>
          /\ current_session.header[1].instrument_id = <<52, 50>>
    /\ HeaderFrameJustRead =>
          LET sender == NthPiece(OnlyRecord(last_read), PIPE, 4)
              n == NumPieces(sender, CARET)
              h == current_session.header[1]
          IN /\ last_write = <<ACK>>
             /\ h.manufacturer = NthPiece(sender, CARET, 0)
             /\ n > 1 => h.product = NthPiece(sender, CARET, 1)
             /\ n > 2 => h.software_version = NthPiece(sender, CARET, 2)
             /\ n > 3 => h.instrument_id = NthPiece(sender, CARET, 3)

C16_Witness ==
    /\ FrameJustRead
    /\ last_read = AnalyzerFrame(49, recH)
    /\ last_write = <<ACK>>
    /\ Len(current_session.header) = 1
    /\ current_session.header[1].instrument_id = <<52, 50>>

\* C17: in the summary made at finalization, the row of each Result takes
\* patient name and patient id from the first Patient, in arrival order,
\* with the Result's sequence number, and the sample id from the first
\* Order with that sequence number; where no Patient, or no Order, has it,
\* those fields are 'N/A'; the summary has a row for every Result.
Matching(entities, sequence) ==
    {k \in 1..Len(entities) : entities[k].sequence = sequence}

Earliest(K) == CHOOSE k \in K : \A m \in K : k <= m

C17_SummaryJoin ==
    fn_pc = "summarized" =>
        /\ Len(fn_out.results) = Len(fn_in.results)
        /\ \A i \in 1..Len(fn_in.results) :
              LET row == fn_out.results[i]
                  P == Matching(fn_in.patients, fn_in.results[i].sequence)
                  O == Matching(fn_in.orders, fn_in.results[i].sequence)
              IN /\ row.esr_value = fn_in.results[i].value
                 /\ IF P = {}
                    THEN row.patient_name = NA /\ row.patient_id = NA
                    ELSE /\ row.patient_name = fn_in.patients[Earliest(P)].patient_name
                         /\ row.patient_id = fn_in.patients[Earliest(P)].patient_id
                 /\ IF O = {}
                    THEN row.sample_id = NA
                    ELSE row.sample_id = fn_in.orders[Earliest(O)].sample_id

\* a summarized session where a Result has two Patients with its sequence
\* number, of different names, and no Order with it
C17_Witness ==
    /\ fn_pc = "summarized"
    /\ \E i \in 1..Len(fn_in.results) :
          /\ Cardinality(Matching(fn_in.patients, fn_in.results[i].sequence)) = 2
          /\ fn_in.patients[1].patient_name # fn_in.patients[2].patient_name
          /\ Matching(fn_in.orders, fn_in.results[i].sequence) = {}
          /\ fn_in.orders # <<>>
          /\ fn_out.results[i].patient_name = fn_in.patients[1].patient_name
          /\ fn_out.results[i].sample_id = NA

\* C18: a record whose first character is none of H, P, O, R, L is skipped:
\* it leaves the session unchanged, the other records of its frame are
\* decoded as if it were not there, and the frame is answered with ACK.
KnownTag(record) == record[1] \in {72, 80, 79, 82, 76}

HasUnknownTag(frame_data) ==
    \E j \in 0..(NumPieces(OnlyRecord(frame_data), CR) - 1) :
        LET record == NthPiece(OnlyRecord(frame_data), CR, j)
        IN record # <<>> /\ ~KnownTag(record)

C18_UnknownTagSkipped ==
    [][(/\ state = "RECEIVING_FRAMES"
        /\ StartsWith(last_read', STX)
        /\ DeclaredChecksumMatches(last_read')
        /\ HasUnknownTag(last_read'))
       => LET known == SelectSeq(RecordsOf(last_read'), KnownTag)
              without == ProcessRecords(current_session, known)
          IN /\ current_session' = without.session
             /\ ~without.raised => last_write' = <<ACK>>
             /\ known = <<>> => current_session' = current_session]_vars

\* a patient was decoded from the frame 'X|1' CR 'P|1||7' and the frame
\* was answered with ACK
C18_Witness ==
    /\ state = "RECEIVING_FRAMES"
    /\ last_read = AnalyzerFrame(49, recX \o <<CR>> \o recP)
    /\ last_write = <<ACK>>
    /\ current_session.patients # <<>>
    /\ current_session.patients[Len(current_session.patients)].patient_id = <<55>>

\* C19: in IDLE, a received byte other than ENQ is discarded: nothing is
\* written, the engine stays in IDLE and the open session is unchanged.
C19_IdleByteDiscarded ==
    [][(state = "IDLE" /\ Len(last_read') = 1 /\ last_read'[1] # ENQ)
       => /\ last_write' = <<>>
          /\ state' = "IDLE"
          /\ current_session' = current_session
          /\ handed_off' = handed_off]_vars

\* the byte 'A' was read in IDLE while the session held a patient
C19_Witness ==
    /\ state = "IDLE"
    /\ last_read = <<65>>
    /\ last_write = <<>>
    /\ current_session.patients # <<>>

\* C20: no recoverable error halts the engine: after a timeout, a checksum
\* mismatch, a malformed frame, a record that fails to decode or a failure
\* to persist at finalization, the engine is in IDLE or RECEIVING_FRAMES,
\* and in IDLE an ENQ is still read and answered with ACK.
AfterRecoverableError ==
    \/ last_read = <<>>
    \/ last_write = <<NAK>>
    \/ MalformedFrame(last_read)
    \/ current_session.session_end

C20_ErrorsDoNotHalt ==
    AfterRecoverableError =>
        /\ state \in {"IDLE", "RECEIVING_FRAMES"}
        /\ state = "IDLE" =>
              ENABLED (ListenEnq /\ last_write' = <<ACK>>
                                 /\ state' = "RECEIVING_FRAMES")

\* an ENQ was answered with ACK after an earlier finalization had failed
\* to persist and left its stamped session behind
C20_Witness ==
    /\ state = "RECEIVING_FRAMES"
    /\ last_read = <<ENQ>>
    /\ last_write = <<ACK>>
    /\ current_session.session_end
    /\ current_session.results # <<>>

\* C21: a shutdown asked for by the operator is honoured only between
\* frames: once the engine has begun reading a frame it reads, validates and
\* answers that frame before it stops; and when it stops it writes no ACK or
\* NAK for a frame it has read in part.
C21_ShutdownBetweenFrames ==
    [][/\ state = "MID_FRAME" => state' # "STOPPED"
       /\ state' = "STOPPED" => last_write' = <<>>]_vars

\* C22: round trip: every decoded Header, Patient, Order and Result, written
\* back as a pipe/caret-delimited record with each field at the position the
\* decoder reads it from, decodes again to an entity with the same field
\* values.
RECURSIVE JoinPipe(_, _)
JoinPipe(tag, fields) ==
    IF fields = <<>> THEN <<tag>>
    ELSE JoinPipe(tag, SubSeq(fields, 1, Len(fields) - 1))
            \o <<PIPE>> \o fields[Len(fields)]

\* the record with the given texts at the given pipe positions (from 1) and
\* every other field up to the last position empty
RecordWith(tag, last, at) ==
    JoinPipe(tag, [i \in 1..last |-> IF i \in DOMAIN at THEN at[i] ELSE <<>>])

EncodeHeader(h) ==
    RecordWith(72, 13,
        (4 :> (h.manufacturer \o <<CARET>> \o h.product \o <<CARET>>
                \o h.software_version \o <<CARET>> \o h.instrument_id))
        @@ (11 :> h.processing_id) @@ (12 :> h.version_number)
        @@ (13 :> h.message_datetime))

EncodePatient(p) ==
    RecordWith(80, 13,
        (1 :> p.sequence) @@ (3 :> p.patient_id) @@ (5 :> p.patient_name)
        @@ (7 :> p.birthdate) @@ (8 :> p.sex) @@ (13 :> p.attending_physician))

EncodeOrder(o) ==
    RecordWith(79, 25,
        (1 :> o.sequence) @@ (2 :> (o.sample_id \o <<CARET>> \o o.rotor_location))
        @@ (4 :> o.test_id) @@ (25 :> o.report_type))

EncodeResult(r) ==
    RecordWith(82, 13,
        (1 :> r.sequence) @@ (2 :> r.test_id) @@ (3 :> r.value) @@ (4 :> r.units)
        @@ (6 :> r.abnormal_flag) @@ (8 :> r.status) @@ (11 :> r.test_start)
        @@ (12 :> r.test_complete) @@ (13 :> r.instrument_id))

\* the session a fresh engine holds after a valid frame with this record
Redecoded(record) == _process_frame(_init_session, AnalyzerFrame(49, record))

C23_ReturnsToIdle == (state = "RECEIVING_FRAMES") ~> (state = "IDLE")

\* the non-empty records of a well-formed frame, in wire order
WireRecordsOf(frame_data) ==
    LET payload == OnlyRecord(frame_data)
        pieces == [j \in 1..NumPieces(payload, CR) |-> NthPiece(payload, CR, j - 1)]
    IN SelectSeq(pieces, LAMBDA r : r # <<>>)

RecordsOfType(frame_data, tag) ==
    SelectSeq(WireRecordsOf(frame_data), LAMBDA r : r[1] = tag)

FrameAccepted ==
    state = "RECEIVING_FRAMES" /\ StartsWith(last_read', STX) /\ last_write' = <<ACK>>

\* C24: an accepted frame appends one entity per P, O and R record to the
\* end of that record's list, in the order of the records between the CR
\* separators, skips empty records, and changes nothing else of the session
\* unless it holds an H record.
C24_AcceptedFrameAppends ==
    [][FrameAccepted =>
        LET ps == RecordsOfType(last_read', 80)
            os == RecordsOfType(last_read', 79)
            rs == RecordsOfType(last_read', 82)
        IN /\ current_session'.patients = current_session.patients
                \o [i \in 1..Len(ps) |-> PatientOf(Split(ps[i], PIPE))]
           /\ current_session'.orders = current_session.orders
                \o [i \in 1..Len(os) |-> OrderOf(Split(os[i], PIPE))]
           /\ current_session'.results = current_session.results
                \o [i \in 1..Len(rs) |-> ResultOf(Split(rs[i], PIPE))]
           /\ RecordsOfType(last_read', 72) = <<>> =>
                current_session'.header = current_session.header]_vars

\* a frame of a patient, an empty record and an order was accepted: the
\* empty record was skipped and each list grew by one
C24_Witness ==
    /\ state = "RECEIVING_FRAMES"
    /\ last_write = <<ACK>>
    /\ last_read = AnalyzerFrame(49, recP \o <<CR, CR>> \o recO)
    /\ Len(current_session.patients) = 1
    /\ Len(current_session.orders) = 1
    /\ current_session.results = <<>>

\* C25: the session's header is the decoding of the last H record received
\* in the transmission, the empty default while there is none; H records
\* change no list.  Step by step: a transmission starts with no header, an
\* accepted frame with H records leaves the decoding of its last one, and
\* nothing else changes the header.
C25_HeaderIsLastOfTransmission ==
    [][/\ (state = "IDLE" /\ state' = "RECEIVING_FRAMES")
          => current_session'.header = <<>>
       /\ FrameAccepted =>
            LET hs == RecordsOfType(last_read', 72)
            IN /\ hs # <<>> =>
                    current_session'.header = <<HeaderOf(Split(hs[Len(hs)], PIPE))>>
               /\ hs = <<>> => current_session'.header = current_session.header
               /\ Len(hs) = Len(WireRecordsOf(last_read')) =>
                    /\ current_session'.patients = current_session.patients
                    /\ current_session'.orders = current_session.orders
                    /\ current_session'.results = current_session.results]_vars

\* the results of a session that were interpreted as a normal measurement
NormalResults(session) ==
    {i \in 1..Len(session.results) :
        session.results[i].interpretation.text = "Normal measurement: "}

\* C26: in every session summary the three totals are the lengths of the
\* session's lists, there is one row per Result in arrival order, and
\* successful_tests + error_tests = total_results, successful_tests being
\* the number of results interpreted as a normal measurement.
C26_SummaryStatistics ==
    fn_pc = "summarized" =>
        /\ fn_out.statistics.total_patients = Len(fn_in.patients)
        /\ fn_out.statistics.total_orders = Len(fn_in.orders)
        /\ fn_out.statistics.total_results = Len(fn_in.results)
        /\ Len(fn_out.results) = Len(fn_in.results)
        /\ \A i \in 1..Len(fn_in.results) :
              /\ fn_out.results[i].test_number = i
              /\ fn_out.results[i].esr_value = fn_in.results[i].value
              /\ fn_out.results[i].interpretation = fn_in.results[i].interpretation
        /\ fn_out.statistics.successful_tests + fn_out.statistics.error_tests
              = fn_out.statistics.total_results
        /\ fn_out.statistics.successful_tests = Cardinality(NormalResults(fn_in))

\* a session of an error result before a normal one, with one patient and
\* no order, was summarized
C26_Witness ==
    /\ fn_pc = "summarized"
    /\ Len(fn_in.results) = 2
    /\ NormalResults(fn_in) = {2}
    /\ Len(fn_in.patients) = 1
    /\ fn_in.orders = <<>>
    /\ fn_out.statistics.error_tests = 1

\* C27: for an O record the sequence number is the second pipe field and
\* the third pipe field is cut at carets: its first piece is sample_id, its
\* second rotor_location, each empty when absent.
C27_OrderSampleField ==
    (fn_pc = "decoded" /\ fn_in[1] = 79) =>
        /\ fn_out.success
        /\ Len(fn_out.session.orders) = 1
        /\ LET o == fn_out.session.orders[1]
               sample == IF NumPieces(fn_in, PIPE) > 2
                         THEN NthPiece(fn_in, PIPE, 2) ELSE <<>>
           IN /\ o.sequence = IF NumPieces(fn_in, PIPE) > 1
                               THEN NthPiece(fn_in, PIPE, 1) ELSE <<>>
              /\ o.sample_id = NthPiece(sample, CARET, 0)
              /\ o.rotor_location = IF NumPieces(sample, CARET) > 1
                                     THEN NthPiece(sample, CARET, 1) ELSE <<>>

\* an order whose sample field has more than two caret pieces was decoded
C27_Witness ==
    /\ fn_pc = "decoded"
    /\ fn_in[1] = 79
    /\ NumPieces(fn_in, PIPE) > 2
    /\ NumPieces(NthPiece(fn_in, PIPE, 2), CARET) > 2
    /\ fn_out.session.orders[1].sample_id # fn_out.session.orders[1].rotor_location
    /\ fn_out.session.orders[1].rotor_location # <<>>

ReplacedFrameChecked == fn_pc = "replaced" /\ ck_pc = "out"

\* C28: for every frame the validator reports valid, replacing any single
\* byte from the byte after STX through ETX, both included, with a different
\* value yields a frame the validator reports invalid.
C28_AnyReplacementInvalid == ReplacedFrameChecked => ~ck_valid

\* C28 as amended: the replacement yields an invalid frame when it replaces
\* a byte strictly between STX and ETX with a value other than ETX, or
\* replaces the ETX of a frame that has no other ETX.
C28_ReplacementInvalid ==
    ReplacedFrameChecked =>
        LET etx_pos == Find(fn_in.frame_data, ETX)
        IN (\/ fn_in.at < etx_pos /\ fn_in.byte # ETX
            \/ /\ fn_in.at = etx_pos
               /\ \A i \in 1..Len(fn_in.frame_data) :
                     fn_in.frame_data[i] = ETX => i = etx_pos + 1)
           => ~ck_valid

\* a payload byte of a valid frame was replaced with STX and the validator
\* reported the result invalid
C28_Witness ==
    /\ ReplacedFrameChecked
    /\ fn_in.byte = STX
    /\ fn_in.at = 2
    /\ fn_in.at < Find(fn_in.frame_data, ETX)
    /\ ~ck_valid

\* C29: a frame is processed atomically with respect to its answer: either
\* every record of it is applied to the session and ACK is written, or none
\* is and NAK is written.
C29_FrameAtomic ==
    [][(state = "RECEIVING_FRAMES" /\ StartsWith(last_read', STX)) =>
        \/ /\ last_write' = <<ACK>>
           /\ Len(current_session'.patients)
                = Len(current_session.patients) + Len(RecordsOfType(last_read', 80))
           /\ Len(current_session'.orders)
                = Len(current_session.orders) + Len(RecordsOfType(last_read', 79))
           /\ Len(current_session'.results)
                = Len(current_session.results) + Len(RecordsOfType(last_read', 82))
        \/ /\ last_write' = <<NAK>>
           /\ current_session' = current_session]_vars

EotJustRead == state = "RECEIVING_FRAMES" /\ StartsWith(last_read', EOT)

\* the open session with its end time stamped
Stamped == [current_session EXCEPT !.session_end = TRUE]

OpensTransmission == state = "IDLE" /\ last_read' = <<ENQ>>

\* the step reads a chunk of a transmission that starts with STX
ReadsStxChunk == state = "RECEIVING_FRAMES" /\ StartsWith(last_read', STX)

\* C31: the engine is half-duplex: a step writes ACK for the ENQ that opens
\* a transmission, ACK or NAK for a chunk of a transmission that starts
\* with STX, ACK (never NAK) for one that starts with EOT, and nothing in
\* any other step (timeout, another byte in IDLE, another chunk), so it
\* never writes more bytes than it received ENQ, STX and EOT chunks.
C31_HalfDuplex ==
    [][/\ OpensTransmission => last_write' = <<ACK>>
       /\ ReadsStxChunk => last_write' \in {<<ACK>>, <<NAK>>}
       /\ EotJustRead => last_write' = <<ACK>>
       /\ ~(OpensTransmission \/ ReadsStxChunk \/ EotJustRead)
            => last_write' = <<>>]_vars

\* an ENQ read inside a transmission was left without an answer
C31_Witness ==
    /\ state = "RECEIVING_FRAMES"
    /\ last_read = <<ENQ>>
    /\ last_write = <<>>
    /\ NumEntities(current_session) > 0


====
